---- MODULE Spec2Model ----
(***************************************************************************)
(* Model of the bufpool allocator (src/bufpool.go, src/options.go).        *)
(*                                                                         *)
(* A Pool keeps shards ([]byte of sz bytes, a bump offset `off` and an     *)
(* atomic reference counter `refs`) in a sync.Pool.  Make(n) carves        *)
(* s.b[off : off+n : off+n] out of a shard; Buffer.Done decrements refs.   *)
(*                                                                         *)
(* Every goroutine is a thread of the model.  Make is split at its         *)
(* accesses to shared memory (sync.Pool Get / Put, the atomic load and     *)
(* add on refs); what lies between two such accesses is local to the       *)
(* goroutine and belongs to the step of the access next to it.             *)
(***************************************************************************)
EXTENDS Integers, Sequences, FiniteSets, TLC

\* ---------------------------------------------------------------- bounds
NumThreads == 2         \* goroutines using the pool
MaxShardSize == 4       \* New(sz) is explored for sz in 1..MaxShardSize
MaxRetriesBound == 2    \* WithMaxRetries(r) is explored for r in 0..MaxRetriesBound
MaxShards == 3          \* shards ever created (p.pool.New calls)
MaxHandles == 1         \* Buffers a goroutine keeps at a time
MaxDones == 2           \* Done calls explored on one Buffer

\* Go's nil for *shard and *int64; shards are numbered from 1.
NoShard == 0

Threads == 1..NumThreads

VARIABLES
    sz,          \* Pool.sz
    maxRetries,  \* Pool.maxRetries
    retains,     \* whether the sync.Pool keeps every shard Put into it
    shards,      \* the shards created so far: <<[off, refs], ...>>
    pool,        \* the shards inside the sync.Pool
    pc,          \* each goroutine's position
    req,         \* Make's n
    i,           \* Make's loop counter
    held,        \* Make's deferred p.pool.Put arguments, in defer order
    ret,         \* Make's return value, once evaluated
    made,        \* the shard the Make call in progress has created, if any
    handles      \* the Buffers each goroutine holds

vars == <<sz, maxRetries, retains, shards, pool, pc, req, i, held, ret, made, handles>>

\* ---------------------------------------------------------------- slices
\* A Go slice: its backing array (a shard, or NoShard for an array of its
\* own), the index of its first element in it, its len and its cap.
MakeSlice(arr, n) == [arr |-> arr, lo |-> 0, len |-> n, cap |-> n]

\* b[low : high : max] is legal iff 0 <= low <= high <= max <= cap(b).
SliceInRange(b, low, high, max) ==
    0 <= low /\ low <= high /\ high <= max /\ max <= b.cap

\* b[low : high : max]
Slice3(b, low, high, max) ==
    [arr |-> b.arr, lo |-> b.lo + low, len |-> high - low, cap |-> max - low]

\* Mutant: the shard's array is made twice as long.
ShardBDouble(id) == MakeSlice(id, 2 * sz)

\* shard.b of shard id: make([]byte, sz)
ShardB(id) == MakeSlice(id, sz)

\* Mutant: a shard that starts with refs = 1.
NewShardCounted == [off |-> 0, refs |-> 1]

\* &shard{b: make([]byte, sz)}
NewShard == [off |-> 0, refs |-> 0]

\* Buffer{B: make([]byte, n)}
mallocBuffer(n) == [B |-> MakeSlice(NoShard, n), refs |-> NoShard]

\* What a goroutine keeps of a Buffer: the Buffer, the n it asked for and
\* how many times it has called Done on it.
Handle(b, n) == [buf |-> b, req |-> n, dones |-> 0]

\* ---------------------------------------------------------------- Make
\* Mutant: if n <= 0
IsInvalidNonPositive(n) == n <= 0

\* if n < 0
IsInvalid(n) == n < 0

\* Mutant: if n == 0 || n > p.sz
IsStandaloneStrict(n) == n = 0 \/ n > sz

\* Mutant: if n == 0 || n >= p.sz-1
IsStandaloneEarly(n) == n = 0 \/ n >= sz - 1

\* if n == 0 || n >= p.sz
IsStandalone(n) == n = 0 \/ n >= sz

\* Mutant: case st.off+n <= len(st.b)
HasRoomInclusive(sh, id, n) == sh.off + n <= ShardB(id).len

\* case st.off+n < len(st.b)
HasRoom(sh, id, n) == sh.off + n < ShardB(id).len

\* Mutant: case atomic.LoadInt64(&st.refs) <= 1
AllReturnedButOne(sh) == sh.refs <= 1

\* case atomic.LoadInt64(&st.refs) == 0
AllReturned(sh) == sh.refs = 0

\* Mutant: the switch without the assignment of its second case.
SelectedWithRoomOnly(sh, id, n) == IF HasRoom(sh, id, n) THEN id ELSE NoShard

\* Mutant: the switch without its first case.
SelectedWhenReturned(sh, id, n) == IF AllReturned(sh) THEN id ELSE NoShard

\* The switch on st: st itself when s = st is assigned, nil otherwise.
Selected(sh, id, n) ==
    IF HasRoom(sh, id, n) \/ AllReturned(sh) THEN id ELSE NoShard

\* Mutant: s.off = 0 whenever the first case fails, whatever refs.
InspectedResetUnchecked(sh, id, n) ==
    IF ~HasRoom(sh, id, n) THEN [sh EXCEPT !.off = 0] ELSE sh

\* Mutant: the second case without s.off = 0.
InspectedNoReset(sh, id, n) == sh

\* st after the switch: s.off = 0 in the second case.
Inspected(sh, id, n) ==
    IF ~HasRoom(sh, id, n) /\ AllReturned(sh) THEN [sh EXCEPT !.off = 0] ELSE sh

\* Mutant: i <= p.maxRetries && s == nil
LoopCondOneMore(iv, sv) == iv <= maxRetries /\ sv = NoShard

\* i < p.maxRetries && s == nil
LoopCond(iv, sv) == iv < maxRetries /\ sv = NoShard

\* Mutant: s.b[s.off : s.off+n], whose cap runs to the end of the shard.
CarveTwoIndex(sh, id, n) == Slice3(ShardB(id), sh.off, sh.off + n, ShardB(id).cap)

\* s.b[s.off : s.off+n : s.off+n]
Carve(sh, id, n) == Slice3(ShardB(id), sh.off, sh.off + n, sh.off + n)

\* Whether that slice expression is in range (it panics otherwise).
CarveInRange(sh, id, n) == SliceInRange(ShardB(id), sh.off, sh.off + n, sh.off + n)

\* Mutant: s.off += n without the increment of refs.
ClaimedUncounted(sh, n) == [sh EXCEPT !.off = @ + n]

\* atomic.AddInt64(&s.refs, 1); s.off += n
Claimed(sh, n) == [sh EXCEPT !.refs = @ + 1, !.off = @ + n]

\* Mutant: Buffer{B: b}
ShardBufferNoRefs(sh, id, n) == [B |-> Carve(sh, id, n), refs |-> NoShard]

\* Buffer{B: b, refs: &s.refs}
ShardBuffer(sh, id, n) == [B |-> Carve(sh, id, n), refs |-> id]

\* Make(n) up to the loop: the panic on n < 0, the standalone allocation, or
\* the first loop test (with i = 0 and s = nil).
Make(t, n) ==
    /\ pc[t] = "idle"
    /\ Len(handles[t]) < MaxHandles
    /\ IF IsInvalid(n)
       THEN /\ pc' = [pc EXCEPT ![t] = "panicked"]
            /\ req' = [req EXCEPT ![t] = n]
            /\ UNCHANGED handles
       ELSE IF IsStandalone(n)
       THEN /\ handles' = [handles EXCEPT ![t] = Append(@, Handle(mallocBuffer(n), n))]
            /\ UNCHANGED <<pc, req>>
       ELSE /\ pc' = [pc EXCEPT ![t] = IF LoopCond(0, NoShard) THEN "get" ELSE "fallback"]
            /\ req' = [req EXCEPT ![t] = n]
            /\ UNCHANGED handles
    /\ UNCHANGED <<sz, maxRetries, retains, shards, pool, i, held, ret, made>>

\* Mutant: the shard is used without deferring its Put.
DeferredDropped(t, id) == held[t]

\* defer p.pool.Put(st): the call's deferred Puts, in defer order.
Deferred(t, id) == Append(held[t], id)

\* Make from `defer p.pool.Put(id)` on, for the shard id it has just obtained:
\* all is the shards with id as the switch (or its creation) left it, rest the
\* pool without id, sel the s of the loop test and iv the i of the loop test.
\* With s = nil the loop test follows; otherwise lines 79-82, where a slice
\* out of range panics after the increment and the deferred Puts run while
\* the panic unwinds.
Proceed(t, all, rest, id, sel, iv) ==
    LET n == req[t]
        puts == Deferred(t, id)
    IN /\ i' = [i EXCEPT ![t] = iv]
       /\ made' = [made EXCEPT ![t] = IF id > Len(shards) THEN id ELSE @]
       /\ IF sel = NoShard
          THEN /\ shards' = all
               /\ pool' = rest
               /\ held' = [held EXCEPT ![t] = puts]
               /\ pc' = [pc EXCEPT ![t] = IF LoopCond(iv, sel) THEN "get" ELSE "fallback"]
               /\ UNCHANGED ret
          ELSE IF CarveInRange(all[id], id, n)
          THEN /\ shards' = [all EXCEPT ![id] = Claimed(@, n)]
               /\ pool' = rest
               /\ held' = [held EXCEPT ![t] = puts]
               /\ ret' = [ret EXCEPT ![t] = <<ShardBuffer(all[id], id, n)>>]
               /\ pc' = [pc EXCEPT ![t] = "return"]
          ELSE /\ shards' = [all EXCEPT ![id].refs = @ + 1]
               /\ pool' = rest \cup {puts[k] : k \in 1..Len(puts)}
               /\ held' = [held EXCEPT ![t] = <<>>]
               /\ pc' = [pc EXCEPT ![t] = "panicked"]
               /\ UNCHANGED ret

\* Mutant: a Get that hands the shard out and leaves it in the pool.
TakenLeftInPool(id) == pool

\* The pool after p.pool.Get() has handed out shard id.
Taken(id) == pool \ {id}

\* One iteration of the loop: st := p.pool.Get().(*shard), the deferred Put,
\* the switch, i++ and the loop test; then, when s was assigned, lines 79-82.
\* sync.Pool.Get takes some shard out of the pool; when the pool is empty, or
\* when it chooses to treat the pool as empty, it returns p.pool.New().
\* The shard is out of the pool from Get on, so that only the atomic add of
\* a concurrent Done touches it before Make's own add; that add commutes with
\* everything here but the atomic load, which it may precede in this model
\* as well.
Get(t) ==
    /\ pc[t] = "get"
    /\ \/ \E id \in pool :
            Proceed(t, [shards EXCEPT ![id] = Inspected(shards[id], id, req[t])], Taken(id), id,
                    Selected(shards[id], id, req[t]), i[t] + 1)
       \/ /\ pool = {} \/ ~retains
          /\ Len(shards) < MaxShards
          /\ Proceed(t, Append(shards, Inspected(NewShard, Len(shards) + 1, req[t])), pool,
                     Len(shards) + 1, Selected(NewShard, Len(shards) + 1, req[t]), i[t] + 1)
    /\ UNCHANGED <<sz, maxRetries, retains, req, handles>>

\* if s == nil { s = p.pool.New().(*shard); defer p.pool.Put(s) }, then
\* lines 79-82 on the new shard.
Fallback(t) ==
    /\ pc[t] = "fallback"
    /\ Len(shards) < MaxShards
    /\ Proceed(t, Append(shards, NewShard), pool, Len(shards) + 1, Len(shards) + 1, i[t])
    /\ UNCHANGED <<sz, maxRetries, retains, req, handles>>

\* The deferred p.pool.Put calls, last deferred first; after the last of
\* them Make returns its Buffer to the caller.
RunDeferred(t) ==
    /\ pc[t] = "return"
    /\ held[t] # <<>>
    /\ pool' = pool \cup {held[t][Len(held[t])]}
    /\ held' = [held EXCEPT ![t] = SubSeq(@, 1, Len(@) - 1)]
    /\ IF Len(held[t]) = 1
       THEN /\ handles' = [handles EXCEPT ![t] = Append(@, Handle(ret[t][1], req[t]))]
            /\ ret' = [ret EXCEPT ![t] = <<>>]
            /\ pc' = [pc EXCEPT ![t] = "idle"]
            /\ req' = [req EXCEPT ![t] = 0]
            /\ i' = [i EXCEPT ![t] = 0]
            /\ made' = [made EXCEPT ![t] = NoShard]
       ELSE UNCHANGED <<handles, ret, pc, req, i, made>>
    /\ UNCHANGED <<sz, maxRetries, retains, shards>>

\* ---------------------------------------------------------------- Buffer
\* len(b.B)
BufLen(b) == b.B.len

\* Mutant: a decrement that reaches zero also moves off back to 0.
ReleasedEagerReset(sh) ==
    IF sh.refs = 1 THEN [off |-> 0, refs |-> 0] ELSE [sh EXCEPT !.refs = @ - 1]

\* atomic.AddInt64(b.refs, -1)
Released(sh) == [sh EXCEPT !.refs = @ - 1]

\* Mutant: Done without b.refs = nil.
ClearRefsForgotten(b) == b

\* b.refs = nil
ClearRefs(b) == [b EXCEPT !.refs = NoShard]

\* Buffer.Done on the k-th Buffer goroutine t holds.
Done(t, k) ==
    /\ pc[t] = "idle"
    /\ k \in 1..Len(handles[t])
    /\ handles[t][k].dones < MaxDones
    /\ LET b == handles[t][k].buf
       IN IF b.refs # NoShard
          THEN /\ shards' = [shards EXCEPT ![b.refs] = Released(@)]
               /\ handles' = [handles EXCEPT ![t][k].buf = ClearRefs(b),
                                             ![t][k].dones = @ + 1]
          ELSE /\ handles' = [handles EXCEPT ![t][k].dones = @ + 1]
               /\ UNCHANGED shards
    /\ UNCHANGED <<sz, maxRetries, retains, pool, pc, req, i, held, ret, made>>

\* The caller's variable goes out of scope (the tests' `buf := pool.Make(..)`
\* in a loop body).  A Buffer that still holds its reference is kept: never
\* calling Done on it is how a shard leaks.
Forget(t, k) ==
    /\ pc[t] = "idle"
    /\ k \in 1..Len(handles[t])
    /\ handles[t][k].buf.refs = NoShard
    /\ handles' = [handles EXCEPT ![t] =
                      SubSeq(@, 1, k - 1) \o SubSeq(@, k + 1, Len(@))]
    /\ UNCHANGED <<sz, maxRetries, retains, shards, pool, pc, req, i, held, ret, made>>

\* ---------------------------------------------------------------- specification
\* bufpool.New(size, WithMaxRetries(r)): no shard exists yet.
New(size, r, keep) ==
    /\ sz = size
    /\ maxRetries = r
    /\ retains = keep
    /\ shards = <<>>
    /\ pool = {}
    /\ pc = [t \in Threads |-> "idle"]
    /\ req = [t \in Threads |-> 0]
    /\ i = [t \in Threads |-> 0]
    /\ held = [t \in Threads |-> <<>>]
    /\ ret = [t \in Threads |-> <<>>]
    /\ made = [t \in Threads |-> NoShard]
    /\ handles = [t \in Threads |-> <<>>]

Init == \E size \in 1..MaxShardSize, r \in 0..MaxRetriesBound : New(size, r, FALSE)

Next ==
    \E t \in Threads :
        \/ \E n \in -1..(sz + 1) : Make(t, n)
        \/ Get(t)
        \/ Fallback(t)
        \/ RunDeferred(t)
        \/ \E k \in 1..MaxHandles : Done(t, k)
        \/ \E k \in 1..MaxHandles : Forget(t, k)

Spec == Init /\ [][Next]_vars

\* One goroutine that repeats Make(n), 0 < n < sz, each followed at once by
\* Done (the loops of TestBasics and TestWrap), on a pool with maxRetries >= 1
\* whose sync.Pool keeps what is Put into it.
InitReuse == \E size \in 1..MaxShardSize, r \in 1..MaxRetriesBound : New(size, r, TRUE)

ReuseMake == handles[1] = <<>> /\ \E n \in 1..(sz - 1) : Make(1, n)

ReuseDone == Done(1, 1)

ReuseForget == handles[1] # <<>> /\ handles[1][1].dones > 0 /\ Forget(1, 1)

NextReuse ==
    \/ ReuseMake
    \/ Get(1)
    \/ RunDeferred(1)
    \/ ReuseDone
    \/ ReuseForget

SpecReuse == InitReuse /\ [][NextReuse]_vars

\* ---------------------------------------------------------------- properties
\* The Buffers that exist: those the goroutines hold (t, k >= 1) and the
\* return values of the Make calls that have not yet returned (t, 0).
Bufs ==
    {x \in Threads \X (0..MaxHandles) :
        IF x[2] = 0 THEN ret[x[1]] # <<>> ELSE x[2] <= Len(handles[x[1]])}

BufOf(x) == IF x[2] = 0 THEN ret[x[1]][1] ELSE handles[x[1]][x[2]].buf

\* The n that Buffer x was asked with.
ReqOf(x) == IF x[2] = 0 THEN req[x[1]] ELSE handles[x[1]][x[2]].req

\* Done has not been called on Buffer x.
Outstanding(x) == x[2] = 0 \/ handles[x[1]][x[2]].dones = 0

ShardBacked(b) == b.B.arr # NoShard

\* The byte ranges of a and b share a byte of one shard.
Overlap(a, b) ==
    /\ ShardBacked(a)
    /\ a.B.arr = b.B.arr
    /\ a.B.lo < b.B.lo + b.B.len
    /\ b.B.lo < a.B.lo + a.B.len

\* Goroutine t's k-th Buffer is the same Buffer before and after the step.
Kept(t, k) == k <= Len(handles[t]) /\ Len(handles'[t]) = Len(handles[t])

\* Goroutine t received a Buffer from Make in this step.
Received(t) == Len(handles'[t]) = Len(handles[t]) + 1

\* C1: every Buffer Make produces, for any n >= 0 and in any interleaving,
\* has len n and cap n exactly; a shard-backed one is a region [lo, lo+n) of
\* a single shard, inside that shard.
C1_ExactLenCap ==
    \A x \in Bufs :
        /\ ReqOf(x) >= 0
        /\ BufLen(BufOf(x)) = ReqOf(x)
        /\ BufOf(x).B.cap = ReqOf(x)
        /\ ShardBacked(BufOf(x)) =>
              /\ BufOf(x).B.arr \in 1..Len(shards)
              /\ BufOf(x).B.lo >= 0
              /\ BufOf(x).B.lo + ReqOf(x) <= sz

\* A goroutine holds a shard-backed Buffer that does not start its shard,
\* while another shard-backed Buffer and a standalone one have been made.
C1_Witness ==
    \E t \in Threads, u \in Threads :
        /\ t # u
        /\ handles[t] # <<>> /\ handles[u] # <<>>
        /\ ShardBacked(handles[t][1].buf) /\ handles[t][1].buf.B.lo > 0
        /\ handles[t][1].req = 2
        /\ ~ShardBacked(handles[u][1].buf) /\ handles[u][1].req > sz

\* C2: no two Buffers on which Done has not been called cover a common byte
\* of a shard, whatever the interleaving of the goroutines.
C2_NoOverlap ==
    \A x \in Bufs, y \in Bufs :
        (x # y /\ Outstanding(x) /\ Outstanding(y)) => ~Overlap(BufOf(x), BufOf(y))

\* Two goroutines hold outstanding Buffers of the same shard.
C2_Witness ==
    \E t \in Threads, u \in Threads :
        /\ t # u
        /\ handles[t] # <<>> /\ handles[u] # <<>>
        /\ handles[t][1].dones = 0 /\ handles[u][1].dones = 0
        /\ ShardBacked(handles[t][1].buf)
        /\ handles[t][1].buf.B.arr = handles[u][1].buf.B.arr

\* C3: the first Done on a shard-backed Buffer takes exactly one from the
\* refs of its shard and clears the Buffer's refs; a later Done on that
\* Buffer changes nothing but the count of calls; and refs never goes down
\* but by such a first Done.
C3_DoneIdempotent ==
    [][/\ \A t \in Threads, k \in 1..MaxHandles :
            (Kept(t, k) /\ handles'[t][k] # handles[t][k]) =>
                LET h == handles[t][k]
                    g == handles'[t][k]
                IN /\ g.dones = h.dones + 1
                   /\ g.req = h.req
                   /\ g.buf.B = h.buf.B
                   /\ g.buf.refs = NoShard
                   /\ UNCHANGED <<pool, pc, held, ret>>
                   /\ IF h.dones = 0 /\ ShardBacked(h.buf)
                      THEN /\ h.buf.refs = h.buf.B.arr
                           /\ shards' = [shards EXCEPT ![h.buf.refs].refs = @ - 1]
                      ELSE /\ h.buf.refs = NoShard
                           /\ shards' = shards
       /\ \A id \in 1..Len(shards) :
            shards'[id].refs < shards[id].refs =>
                \E t \in Threads, k \in 1..MaxHandles :
                    /\ Kept(t, k)
                    /\ handles[t][k].dones = 0
                    /\ handles'[t][k].dones = 1
                    /\ handles[t][k].buf.refs = id
      ]_vars

\* Done has been called twice on a shard-backed Buffer while its shard
\* still counts another Buffer.
C3_Witness ==
    \E t \in Threads :
        /\ handles[t] # <<>>
        /\ handles[t][1].dones = 2
        /\ ShardBacked(handles[t][1].buf)
        /\ shards[handles[t][1].buf.B.arr].refs = 1

\* C4: Make(n) with n = 0 or n >= sz hands out, in one step, a Buffer with
\* no refs and an array of its own, and changes no shard, nor the pool, nor
\* the number of shards; no Make call with such an n is ever on the shard
\* path; and Done on such a Buffer changes no shard and not the Buffer.
C4_StandaloneFrame ==
    [][\A t \in Threads :
          /\ (pc'[t] \in {"get", "fallback", "return"}) => (0 < req'[t] /\ req'[t] < sz)
          /\ Received(t) =>
                LET g == handles'[t][Len(handles'[t])]
                IN (g.req = 0 \/ g.req >= sz) =>
                      /\ g.buf.refs = NoShard
                      /\ ~ShardBacked(g.buf)
                      /\ pc[t] = "idle" /\ pc'[t] = "idle"
                      /\ UNCHANGED <<shards, pool, held>>
          /\ \A k \in 1..MaxHandles :
                (/\ Kept(t, k)
                 /\ handles[t][k].req = 0 \/ handles[t][k].req >= sz
                 /\ handles'[t][k] # handles[t][k]) =>
                      /\ handles'[t][k].buf = handles[t][k].buf
                      /\ UNCHANGED <<shards, pool, held>>
      ]_vars

\* A Buffer of sz bytes, made while a shard existed and another goroutine
\* was inside Make, has had Done called on it twice.
C4_Witness ==
    \E t \in Threads, u \in Threads :
        /\ handles[t] # <<>>
        /\ handles[t][1].req = sz
        /\ handles[t][1].dones = 2
        /\ shards # <<>>
        /\ pc[u] = "return"

\* C5: a Make call panics if and only if its n is negative; the panic comes
\* at once and leaves the shards, the pool and every Buffer as they were.
\* No call with n >= 0 ever panics, whatever maxRetries and the pool's state.
C5_PanicIffNegative ==
    [][\A t \in Threads :
          /\ (req'[t] < 0) <=> (pc'[t] = "panicked")
          /\ (pc[t] # "panicked" /\ pc'[t] = "panicked") =>
                /\ pc[t] = "idle"
                /\ UNCHANGED <<shards, pool, held, ret, handles>>
      ]_vars

\* A goroutine has panicked on a pool that holds a shard, while the other
\* goroutine holds a Buffer of that pool.
C5_Witness ==
    \E t \in Threads, u \in Threads :
        /\ pc[t] = "panicked"
        /\ pool # {}
        /\ handles[u] # <<>>
        /\ ShardBacked(handles[u][1].buf)

\* C6: a single goroutine repeating Make(n), 0 < n < sz, each followed at
\* once by Done, on a pool with maxRetries >= 1 that keeps its shards, never
\* has more than two shards created, and never reaches the creation of a
\* shard after the loop.
C6_ReuseBounded == Len(shards) <= 2 /\ pc[1] # "fallback"

\* A later cycle got its Buffer from the one shard, past its start; the
\* shard was reused.
C6_Witness ==
    /\ Len(shards) = 1
    /\ handles[1] # <<>>
    /\ handles[1][1].buf.B.lo > 0
    /\ handles[1][1].dones = 1

\* C7 as stated: for every sz >= 1, Make(sz - 1) is shard-backed and
\* Make(sz) is standalone.
C7_BoundaryAnySize ==
    \A x \in Bufs :
        /\ ReqOf(x) = sz - 1 => ShardBacked(BufOf(x))
        /\ ReqOf(x) = sz => (~ShardBacked(BufOf(x)) /\ BufOf(x).refs = NoShard)

\* C7 amended: for every sz >= 2, Make(sz - 1) is shard-backed, with its
\* refs on that shard until Done, and Make(sz) is standalone, with no refs.
\* (With sz = 1, Make(sz - 1) is Make(0), which is standalone.)
C7_BoundaryFromTwo ==
    sz >= 2 =>
        \A x \in Bufs :
            /\ ReqOf(x) = sz - 1 =>
                  /\ ShardBacked(BufOf(x))
                  /\ Outstanding(x) => BufOf(x).refs = BufOf(x).B.arr
            /\ ReqOf(x) = sz => (~ShardBacked(BufOf(x)) /\ BufOf(x).refs = NoShard)

\* One goroutine holds a Buffer of sz - 1 bytes, the other one of sz bytes.
C7_Witness ==
    \E t \in Threads, u \in Threads :
        /\ sz >= 2
        /\ handles[t] # <<>> /\ handles[u] # <<>>
        /\ handles[t][1].req = sz - 1
        /\ handles[u][1].req = sz

\* C8 as stated: whatever maxRetries, a Make call that creates a shard after
\* the loop has made at least one attempt on a shard of the pool.
C8_AtLeastOneAttempt ==
    \A t \in Threads : pc[t] = "fallback" => i[t] >= 1

\* C9: the refs of every shard is never negative and is the number of
\* Buffers of that shard on which Done has not been called.
C9_RefsCountsOutstanding ==
    \A id \in 1..Len(shards) :
        /\ shards[id].refs >= 0
        /\ shards[id].refs =
              Cardinality({x \in Bufs : Outstanding(x) /\ BufOf(x).B.arr = id})

\* A shard counts two Buffers, and another has gone back to zero after use.
C9_Witness ==
    \E id \in 1..Len(shards), other \in 1..Len(shards) :
        /\ shards[id].refs = 2
        /\ shards[other].refs = 0
        /\ shards[other].off > 0

\* C10: the off of every shard stays within 0..sz.
C10_OffsetInRange ==
    \A id \in 1..Len(shards) : 0 <= shards[id].off /\ shards[id].off <= sz

\* A shard has been filled as far as it goes, and one has been reset by a
\* claim that started again at its beginning.
C10_Witness ==
    \E id \in 1..Len(shards), t \in Threads :
        /\ shards[id].off = sz - 1
        /\ shards[id].off > 1
        /\ shards[id].refs = 2
        /\ handles[t] # <<>>
        /\ handles[t][1].buf.B.arr = id

\* The shards goroutine t has taken or created and not yet Put back.
HeldBy(t) == {held[t][k] : k \in 1..Len(held[t])}

\* The same, after the step.
HeldByNext(t) == {held'[t][k] : k \in 1..Len(held'[t])}

\* The Buffers of shard id on which Done has not been called.
OutstandingOn(id) == {x \in Bufs : Outstanding(x) /\ BufOf(x).B.arr = id}

\* Goroutine t's Make evaluates its return value in this step; the Buffer
\* is ret'[t][1].
Carves(t) == ret[t] = <<>> /\ ret'[t] # <<>>

\* C11: a shard's off goes down, or a region below its off is handed out,
\* only in a step of a Make call that has the shard out of the pool, at a
\* moment when its refs is 0 and no Buffer of it is outstanding; while a
\* Buffer of the shard is outstanding its off never goes down and every new
\* region starts at or after it.
C11_ResetOnlyWhenReturned ==
    [][\A id \in 1..Len(shards) :
          LET reused == \/ shards'[id].off < shards[id].off
                        \/ \E t \in Threads :
                              /\ Carves(t)
                              /\ ret'[t][1].B.arr = id
                              /\ ret'[t][1].B.lo < shards[id].off
          IN /\ reused =>
                  /\ shards[id].refs = 0
                  /\ OutstandingOn(id) = {}
                  /\ \E t \in Threads :
                        /\ pc[t] = "get"
                        /\ id \in pool /\ id \notin pool'
                        /\ id \in HeldByNext(t)
                        /\ Carves(t)
                        /\ ret'[t][1].B.arr = id
                        /\ ret'[t][1].B.lo = 0
             /\ OutstandingOn(id) # {} => ~reused
      ]_vars

\* A goroutine holds a released Buffer that starts its shard, and the other
\* an outstanding Buffer that starts the same shard: the shard was reset in
\* between.
C11_Witness ==
    \E t \in Threads, u \in Threads :
        /\ t # u
        /\ handles[t] # <<>> /\ handles[u] # <<>>
        /\ handles[t][1].dones = 1 /\ handles[u][1].dones = 0
        /\ ShardBacked(handles[t][1].buf)
        /\ handles[t][1].buf.B.arr = handles[u][1].buf.B.arr
        /\ handles[t][1].buf.B.lo = 0 /\ handles[u][1].buf.B.lo = 0

\* C12: the first Done on a shard-backed Buffer takes one from the refs of
\* its shard and clears the Buffer's refs, and nothing else: that shard's
\* off, the pool, the number of shards, every other shard and every other
\* Buffer stay as they were, also when refs reaches 0.
C12_DoneFrame ==
    [][\A t \in Threads, k \in 1..MaxHandles :
          (/\ Kept(t, k)
           /\ ShardBacked(handles[t][k].buf)
           /\ handles[t][k].dones = 0
           /\ handles'[t][k].dones = 1) =>
              LET id == handles[t][k].buf.B.arr
              IN /\ Len(shards') = Len(shards)
                 /\ shards'[id].refs = shards[id].refs - 1
                 /\ shards'[id].off = shards[id].off
                 /\ \A other \in 1..Len(shards) : other # id => shards'[other] = shards[other]
                 /\ handles'[t][k].buf = [handles[t][k].buf EXCEPT !.refs = NoShard]
                 /\ \A u \in Threads, j \in 1..MaxHandles :
                       (j <= Len(handles[u]) /\ <<u, j>> # <<t, k>>) => handles'[u][j] = handles[u][j]
                 /\ UNCHANGED <<pool, pc, req, i, held, ret, sz, maxRetries>>
      ]_vars

\* Done brought a shard's refs to 0 and its off is still where the claims
\* left it.
C12_Witness ==
    \E t \in Threads :
        /\ handles[t] # <<>>
        /\ handles[t][1].dones = 1
        /\ ShardBacked(handles[t][1].buf)
        /\ shards[handles[t][1].buf.B.arr].refs = 0
        /\ shards[handles[t][1].buf.B.arr].off = handles[t][1].buf.B.lo + handles[t][1].req
        /\ handles[t][1].buf.B.lo > 0

\* Goroutine t's Make inspects a shard in this step (one loop iteration).
Inspects(t) == pc[t] = "get" /\ i'[t] = i[t] + 1

\* The shard inspected in that step, and its fields as Get delivered it (a
\* shard made by p.pool.New() has off 0 and refs 0).
InspectedId(t) == held'[t][Len(held'[t])]

Delivered(t) ==
    IF InspectedId(t) <= Len(shards) THEN shards[InspectedId(t)] ELSE [off |-> 0, refs |-> 0]

\* C13: when a Make(n) with 0 < n < sz inspects a shard, the claim succeeds
\* iff off + n < sz or refs = 0.  With off + n < sz the region [off, off+n)
\* is claimed; otherwise, with refs = 0, the region [0, n).  A claim adds 1 to
\* refs and moves off to the end of the region; a failed inspection leaves
\* off and refs as they were.
C13_ClaimDecision ==
    [][\A t \in Threads :
          Inspects(t) =>
              LET id == InspectedId(t)
                  sh == Delivered(t)
                  n == req[t]
                  room == sh.off + n < sz
                  free == sh.refs = 0
              IN /\ 0 < n /\ n < sz
                 /\ Len(held'[t]) = Len(held[t]) + 1
                 /\ Carves(t) <=> (room \/ free)
                 /\ room =>
                      /\ ret'[t][1].B = [arr |-> id, lo |-> sh.off, len |-> n, cap |-> n]
                      /\ shards'[id] = [off |-> sh.off + n, refs |-> sh.refs + 1]
                 /\ (~room /\ free) =>
                      /\ ret'[t][1].B = [arr |-> id, lo |-> 0, len |-> n, cap |-> n]
                      /\ shards'[id] = [off |-> n, refs |-> 1]
                 /\ (~room /\ ~free) =>
                      /\ shards'[id] = sh
                      /\ ret'[t] = <<>>
      ]_vars

\* A Make call has inspected a shard that could not take the request and
\* left it as it was, with Buffers of it still out.
C13_Witness ==
    \E t \in Threads :
        /\ pc[t] \in {"get", "fallback"}
        /\ held[t] # <<>>
        /\ shards[held[t][1]].refs > 0
        /\ shards[held[t][1]].off + req[t] >= sz

\* Goroutine t's Make inspects, in this step, a shard that was in the pool
\* with refs = 0 after having been claimed from.
InspectsReturned(t) ==
    /\ Inspects(t)
    /\ InspectedId(t) <= Len(shards)
    /\ shards[InspectedId(t)].refs = 0
    /\ shards[InspectedId(t)].off > 0

\* C14 as stated: whenever a shard whose refs has come back to 0 is selected
\* by a Make call, the call sets off to 0 first, and the Buffer it returns
\* starts at index 0 of the shard.
C14_ResetWheneverReturned ==
    [][\A t \in Threads :
          InspectsReturned(t) =>
              /\ Carves(t)
              /\ ret'[t][1].B.arr = InspectedId(t)
              /\ ret'[t][1].B.lo = 0
              /\ shards'[InspectedId(t)].off = req[t]
      ]_vars

\* C14: a shard whose refs has come back to 0 is selected by the Make(n)
\* call that inspects it; the call sets off to 0 first, and returns a Buffer
\* that starts at index 0, exactly when off + n >= sz; when off + n < sz the
\* Buffer starts at off, which is not reset.
C14_ResetWhenReturnedAndFull ==
    [][\A t \in Threads :
          InspectsReturned(t) =>
              LET id == InspectedId(t)
                  full == shards[id].off + req[t] >= sz
              IN /\ Carves(t)
                 /\ ret'[t][1].B.arr = id
                 /\ ret'[t][1].B.len = req[t]
                 /\ ret'[t][1].B.lo = IF full THEN 0 ELSE shards[id].off
                 /\ shards'[id].off = ret'[t][1].B.lo + req[t]
                 /\ shards'[id].refs = 1
      ]_vars

\* A Make call is about to return a Buffer on bytes that another goroutine's
\* released Buffer had: the shard was reset for this call.
C14_Witness ==
    \E t \in Threads, u \in Threads :
        /\ ret[t] # <<>>
        /\ ret[t][1].B.lo = 0
        /\ handles[u] # <<>>
        /\ handles[u][1].dones >= 1
        /\ Overlap(handles[u][1].buf, ret[t][1])
        /\ shards[ret[t][1].B.arr].refs = 1

\* No shard is in the deferred Puts of two Make calls, or twice in those of
\* one, or in the pool while a Make call has it.
CheckedOutOnce ==
    /\ \A t \in Threads, u \in Threads : t # u => HeldBy(t) \cap HeldBy(u) = {}
    /\ \A t \in Threads : Cardinality(HeldBy(t)) = Len(held[t])
    /\ \A t \in Threads : HeldBy(t) \cap pool = {}

\* Goroutine t's Make call is between its first Get and its return value.
Acquiring(t) == pc[t] \in {"get", "fallback"}

\* C15: at every moment a shard is held by at most one Make call in
\* progress and is then not in the pool; a Put always puts a shard that is
\* not in the pool; a shard's off changes only in a step of the Make call
\* that holds it after the step; refs goes down in steps of Done, whoever
\* holds the shard.
C15_CheckoutExclusive ==
    /\ []CheckedOutOnce
    /\ [][\A id \in 1..Len(shards') :
            /\ \A t \in Threads :
                  (id \in HeldBy(t) /\ id \notin HeldByNext(t)) =>
                      id \notin pool /\ id \in pool'
            /\ (id \in pool' /\ id \notin pool) =>
                  \E t \in Threads : id \in HeldBy(t) /\ id \notin HeldByNext(t)
            /\ (id > Len(shards) \/ shards'[id].off # shards[id].off) =>
                  \E t \in Threads :
                      /\ Acquiring(t)
                      /\ id \in HeldByNext(t)
                      /\ id \notin pool'
                      /\ \A u \in Threads : u # t => id \notin HeldBy(u)
            /\ (id <= Len(shards) /\ shards'[id].refs < shards[id].refs) =>
                  /\ shards'[id].off = shards[id].off
                  /\ \E t \in Threads : pc[t] = "idle" /\ handles'[t] # handles[t]
        ]_vars

\* A Make call still holds a shard it inspected and could not claim from,
\* and the shard's refs is 0 by now: a Done of the other goroutine took it
\* down while the shard was checked out.
C15_Witness ==
    \E t \in Threads, u \in Threads :
        /\ t # u
        /\ Acquiring(t)
        /\ held[t] # <<>>
        /\ held[t][1] \notin pool
        /\ shards[held[t][1]].refs = 0
        /\ shards[held[t][1]].off > 0
        /\ handles[u] # <<>>
        /\ handles[u][1].buf.B.arr = held[t][1]
        /\ handles[u][1].dones = 1

\* Goroutine t's Make call gets hold of shard id in this step: from the
\* pool, or by p.pool.New().
Obtains(t, id) == Acquiring(t) /\ id \notin HeldBy(t) /\ id \in HeldByNext(t)

\* C16: every shard a Make call takes or creates goes into its deferred
\* Puts, once, and stays there until the call has carved its Buffer; the
\* Puts then happen one per shard, each of a shard that is not in the pool,
\* and the call returns when none is left.  So a call never gets a shard it
\* already has, and no other call gets a shard before its Put.
C16_DeferredReturn ==
    /\ [](\A t \in Threads :
            /\ Cardinality(HeldBy(t)) = Len(held[t])
            /\ pc[t] = "idle" => held[t] = <<>>
            /\ Acquiring(t) => ret[t] = <<>> /\ Len(held[t]) = i[t]
            /\ pc[t] = "return" => ret[t] # <<>> /\ held[t] # <<>>)
    /\ [][\A t \in Threads :
            /\ (Inspects(t) \/ (pc[t] = "fallback" /\ pc'[t] # "fallback")) =>
                  \E id \in 1..Len(shards') :
                      /\ Obtains(t, id)
                      /\ held'[t] = Append(held[t], id)
                      /\ id \notin pool'
                      /\ \A u \in Threads : u # t => id \notin HeldBy(u)
            /\ Acquiring(t) => HeldBy(t) \subseteq HeldByNext(t) /\ HeldBy(t) \cap pool' = {}
            /\ \A id \in pool' \ pool :
                  \E u \in Threads :
                      /\ pc[u] = "return"
                      /\ ret[u] # <<>>
                      /\ held[u] = Append(held'[u], id)
                      /\ pool' = pool \cup {id}
            /\ (pc[t] = "return" /\ pc'[t] = "idle") => held'[t] = <<>>
        ]_vars

\* A Make call that inspected two shards and claimed from the second has put
\* that one back and still holds the first.
C16_Witness ==
    \E t \in Threads :
        /\ pc[t] = "return"
        /\ i[t] = 2
        /\ Len(held[t]) = 1
        /\ ret[t][1].B.arr \in pool
        /\ held[t][1] \notin pool

\* ---------------------------------------------------------------- fairness
\* A goroutine inside Make keeps running: Make takes no lock and waits for
\* nothing (sync.Pool.Get and Put, the atomic operations and make do not
\* block), so the Go scheduler lets each of its steps happen.
MakeStep(t) == Get(t) \/ Fallback(t) \/ RunDeferred(t)

SpecFair == Spec /\ \A t \in Threads : WF_vars(MakeStep(t))

\* Goroutine t is inside Make.
InMake(t) == pc[t] \in {"get", "fallback", "return"}

\* Goroutine t's next step needs a new shard and MaxShards shards exist.
AtShardBound(t) ==
    /\ Acquiring(t)
    /\ Len(shards) = MaxShards
    /\ pc[t] = "get" => pool = {}

\* C17: a Make call inspects at most maxRetries shards, goes to its return
\* as soon as a claim succeeds, has a step of its own to take whatever the
\* other goroutines do, and returns; a Done call is one step.
C17_MakeTerminates ==
    /\ [](\A t \in Threads :
            /\ i[t] <= maxRetries
            /\ Len(held[t]) <= maxRetries + 1
            /\ InMake(t) => (ENABLED MakeStep(t)) \/ AtShardBound(t))
    /\ [][\A t \in Threads :
            /\ (Inspects(t) /\ Carves(t)) => pc'[t] = "return"
            /\ (pc[t] = "return" /\ held'[t] # held[t]) => Len(held'[t]) < Len(held[t])
            /\ handles'[t] # handles[t] => pc'[t] = "idle"
        ]_vars
    /\ \A t \in Threads : InMake(t) ~> (pc[t] = "idle" \/ AtShardBound(t))

\* A Make call that used its whole budget of two inspections, claimed from
\* a new shard and is running its deferred Puts.
C17_Witness ==
    \E t \in Threads :
        /\ maxRetries = 2
        /\ pc[t] = "return"
        /\ i[t] = maxRetries
        /\ Len(held[t]) = maxRetries + 1

\* Goroutine t's Make leaves its loop without a shard and takes lines 74-82
\* in this step.
FallsBack(t) == pc[t] = "fallback" /\ pc'[t] # "fallback"

\* C18 as stated: when no inspected shard could take the request, Make(n)
\* with 0 < n < sz returns a standalone Buffer: an array of its own and no
\* reference to a shard.
C18_FallbackStandalone ==
    [][\A t \in Threads :
          FallsBack(t) =>
              /\ Carves(t)
              /\ ret'[t][1] = mallocBuffer(req[t])
      ]_vars

\* C18: when no inspected shard could take the request, Make(n) with
\* 0 < n < sz makes a new shard and returns the Buffer on its first n bytes,
\* with the reference to that shard's refs, which becomes 1; every inspected
\* shard is left as it was.
C18_FallbackNewShard ==
    [][\A t \in Threads :
          FallsBack(t) =>
              LET id == Len(shards) + 1
              IN /\ 0 < req[t] /\ req[t] < sz
                 /\ i[t] = maxRetries
                 /\ \A k \in 1..Len(held[t]) :
                       /\ shards[held[t][k]].off + req[t] >= sz
                       /\ shards'[held[t][k]] = shards[held[t][k]]
                 /\ Len(shards') = id
                 /\ shards'[id] = [off |-> req[t], refs |-> 1]
                 /\ Carves(t)
                 /\ ret'[t][1].B = [arr |-> id, lo |-> 0, len |-> req[t], cap |-> req[t]]
                 /\ ret'[t][1].refs = id
                 /\ pc'[t] = "return"
      ]_vars

\* A Make call inspected a shard, could not claim from it, and is returning
\* a Buffer of the shard it made.
C18_Witness ==
    \E t \in Threads :
        /\ pc[t] = "return"
        /\ i[t] >= 1
        /\ Len(held[t]) = i[t] + 1
        /\ ret[t][1].refs = held[t][Len(held[t])]
        /\ ret[t][1].refs = made[t]
        /\ ret[t][1].refs \notin {held[t][k] : k \in 1..i[t]}

\* Goroutine t's Make call makes a shard in this step (p.pool.New(), called
\* by Get on an empty pool or by line 75).
Creates(t) == made'[t] # made[t] /\ made'[t] # NoShard

\* Goroutine t's Make call returns in this step.
Returns(t) == pc[t] = "return" /\ pc'[t] = "idle"

\* A Make call makes a shard at most once, only when none of the shards it
\* inspected before has room for the request, and claims the first n bytes
\* of the new shard, whose refs becomes 1; shards are made by Make calls
\* only.
OneNewShard ==
    /\ \A t \in Threads :
          Creates(t) =>
              /\ made[t] = NoShard
              /\ made'[t] = Len(shards) + 1
              /\ Len(shards') = Len(shards) + 1
              /\ \A k \in 1..Len(held[t]) :
                    /\ held[t][k] <= Len(shards)
                    /\ shards[held[t][k]].off + req[t] >= sz
              /\ Carves(t)
              /\ ret'[t][1] = [B |-> [arr |-> made'[t], lo |-> 0, len |-> req[t], cap |-> req[t]],
                               refs |-> made'[t]]
              /\ shards'[made'[t]] = [off |-> req[t], refs |-> 1]
    /\ Len(shards') # Len(shards) => \E t \in Threads : Creates(t)
    /\ \A t \in Threads : (InMake(t) /\ ~Returns(t)) => made'[t] \in {made[t], Len(shards) + 1}

\* C19 as stated: a Make call makes at most one shard, only when no shard
\* it inspected could take the request, claims [0, n) of it with refs
\* becoming 1, and the new shard is in the pool when Make returns.
C19_NewShardInPoolAtReturn ==
    [][/\ OneNewShard
       /\ \A t \in Threads :
             (Returns(t) /\ made[t] # NoShard) => made[t] \in pool'
      ]_vars

\* C19: a Make call makes at most one shard, only when no shard it
\* inspected could take the request, claims [0, n) of it with refs becoming
\* 1, and has Put the new shard into the pool when it returns: the shard is
\* then in the pool, unless another Make call has taken it out since.
C19_NewShardPutBeforeReturn ==
    [][/\ OneNewShard
       /\ \A t \in Threads :
             (Returns(t) /\ made[t] # NoShard) =>
                 /\ made[t] \notin HeldByNext(t)
                 /\ \/ made[t] \in pool'
                    \/ \E u \in Threads : u # t /\ made[t] \in HeldBy(u)
       /\ \A t \in Threads :
             (pc[t] = "return" /\ held'[t] # held[t] /\ made[t] \in HeldBy(t)) =>
                 (made[t] \notin HeldByNext(t) /\ made[t] \in pool')
      ]_vars

\* A Make call has Put the shard it made and still has a Put to run, and
\* the other goroutine's Make call has taken the new shard out of the pool.
C19_Witness ==
    \E t \in Threads, u \in Threads :
        /\ t # u
        /\ pc[t] = "return"
        /\ made[t] # NoShard
        /\ made[t] \notin HeldBy(t)
        /\ made[t] \notin pool
        /\ made[t] \in HeldBy(u)

\* C20: every shard's off is below sz; every region handed out, [lo, lo+n),
\* has lo + n <= sz - 1, so that the last byte of a shard is in no Buffer;
\* and every Buffer not yet released lies inside [0, off) of its shard.
C20_LastByteUnused ==
    /\ \A id \in 1..Len(shards) : 0 <= shards[id].off /\ shards[id].off <= sz - 1
    /\ \A x \in Bufs :
          ShardBacked(BufOf(x)) =>
              /\ 0 <= BufOf(x).B.lo
              /\ BufOf(x).B.lo + BufOf(x).B.len <= sz - 1
              /\ Outstanding(x) =>
                    BufOf(x).B.lo + BufOf(x).B.len <= shards[BufOf(x).B.arr].off

\* An outstanding Buffer ends at byte sz - 2 of its shard, next to another
\* outstanding Buffer, and the shard's off is sz - 1.
C20_Witness ==
    \E t \in Threads, u \in Threads :
        /\ handles[t] # <<>> /\ handles[u] # <<>>
        /\ handles[t][1].dones = 0 /\ handles[u][1].dones = 0
        /\ ShardBacked(handles[t][1].buf)
        /\ handles[u][1].buf.B.arr = handles[t][1].buf.B.arr
        /\ handles[u][1].buf.B.lo + handles[u][1].buf.B.len = handles[t][1].buf.B.lo
        /\ handles[t][1].buf.B.lo + handles[t][1].buf.B.len = sz - 1
        /\ shards[handles[t][1].buf.B.arr].off = sz - 1

====
